---- MODULE Spec2Model ----
(***************************************************************************)
(* Model of catapulta_Serrano_German.py: the value objects Projectile,     *)
(* BandSystem and CatapultArm, the Catapult with its formula pipeline      *)
(* (stored energy -> useful energy -> velocity -> range) and the           *)
(* Experiment that repeats a launch and averages the ranges.               *)
(*                                                                         *)
(* Numbers.  The program computes with Python floats.  The model computes  *)
(* with exact rationals <<numerator, denominator>> in lowest terms, so     *)
(* that 0.5 * K * x * x, the division by the mass and the division by G    *)
(* are carried out as written.  math.sqrt(q) is kept as the surd           *)
(* [sqrt_of |-> q] (the non-negative real whose square is q), and          *)
(* math.sin is a table over the multiples of pi/6 the chosen angles hit.   *)
(* Rounding of floats is not modelled.                                     *)
(*                                                                         *)
(* Objects.  CatapultArm objects live in a heap (arms) and a Catapult      *)
(* holds the index of its arm, because object identity of the arm matters: *)
(* the default value of the parameter arm is evaluated once, when the      *)
(* def statement of Catapult.__init__ runs.  Projectile and BandSystem     *)
(* objects are never mutated and are held by value.                        *)
(***************************************************************************)
EXTENDS Integers, Sequences, FiniteSets, TLC

VARIABLES arms, cats, defaulted, exp, prior, ret

vars == <<arms, cats, defaulted, exp, prior, ret>>

(* ---------------------------- bounds ----------------------------------- *)
MaxFleet == 2
MaxTrials == 2

(* ------------------------ exact arithmetic ----------------------------- *)
Abs(n) == IF n < 0 THEN -n ELSE n

RECURSIVE Gcd(_, _)
Gcd(a, b) == IF b = 0 THEN a ELSE Gcd(b, a % b)

Rat(n, d) ==
    LET s == IF d < 0 THEN -1 ELSE 1
        g == Gcd(Abs(n), Abs(d))
    IN  <<(s * n) \div g, (s * d) \div g>>

Zero == <<0, 1>>
Mul(a, b) == Rat(a[1] * b[1], a[2] * b[2])
Div(a, b) == Rat(a[1] * b[2], a[2] * b[1])
Add(a, b) == Rat(a[1] * b[2] + b[1] * a[2], a[2] * b[2])
Lt(a, b) == a[1] * b[2] < b[1] * a[2]
Le(a, b) == a[1] * b[2] <= b[1] * a[2]

(* ------------------------- Python results ------------------------------ *)
None == [none |-> TRUE]
Ok(v) == [kind |-> "ok", val |-> v]
Raise(kind, msg) == [kind |-> kind, val |-> msg]
ValueError == "ValueError"
RuntimeError == "RuntimeError"
ZeroDivisionError == "ZeroDivisionError"

(* math.sqrt: ValueError("math domain error") below zero, else the surd.   *)
math_sqrt(q) ==
    IF Lt(q, Zero) THEN Raise(ValueError, "math domain error")
    ELSE Ok([sqrt_of |-> q])

(* v * v for a float v that came out of math.sqrt (or the literal 0.0).    *)
Square(v) == v.sqrt_of

(* math.radians, in units of pi.                                           *)
math_radians(angle_deg) == Div(angle_deg, <<180, 1>>)

(* math.sin of x * pi for x a multiple of 1/6 or 1/2.                      *)
math_sin(x) ==
    LET t == Rat(x[1] % (2 * x[2]), x[2])
    IN  CASE t = <<0, 1>> -> <<0, 1>>
          [] t = <<1, 6>> -> <<1, 2>>
          [] t = <<1, 2>> -> <<1, 1>>
          [] t = <<5, 6>> -> <<1, 2>>
          [] t = <<1, 1>> -> <<0, 1>>
          [] t = <<7, 6>> -> <<-1, 2>>
          [] t = <<3, 2>> -> <<-1, 1>>
          [] t = <<11, 6>> -> <<-1, 2>>

RECURSIVE Sum(_)
Sum(s) == IF s = <<>> THEN Zero ELSE Add(Head(s), Sum(Tail(s)))

(* statistics.mean: exact sum over the count.                              *)
mean(data) == Div(Sum(data), Rat(Len(data), 1))

G == <<981, 100>>

(* --------------------------- value objects ----------------------------- *)
Projectile(mass_kg, name) ==
    IF Le(mass_kg, Zero) THEN Raise(ValueError, "La masa debe ser positiva.")
    ELSE Ok([mass |-> mass_kg, name |-> name])

BandSystem(k_band, n_bands) ==
    IF Le(k_band, Zero) \/ n_bands < 1
    THEN Raise(ValueError, "k_band > 0 y n_bands >= 1")
    ELSE Ok([k_band |-> k_band, n_bands |-> n_bands])

(* Variant: the band count is left out of the total stiffness.             *)
K_total_single(self) == self.k_band

K_total(self) == Mul(self.k_band, Rat(self.n_bands, 1))

CatapultArm(length_m) ==
    IF Le(length_m, Zero)
    THEN Raise(ValueError, "La longitud del brazo debe ser positiva.")
    ELSE Ok([length |-> length_m])

(* The one CatapultArm() built when "def __init__(..., arm = CatapultArm(),*)
(* ...)" is executed: heap slot 1, length 0.2.                             *)
DefaultArm == 1
DefaultArmLength == <<1, 5>>

(* ------------------------------ Catapult ------------------------------- *)
(* Variant: the lower end of the interval is accepted.                     *)
EficienciaOk_closed(eficiencia) == Le(Zero, eficiencia) /\ Le(eficiencia, <<1, 1>>)

EficienciaOk(eficiencia) == Lt(Zero, eficiencia) /\ Le(eficiencia, <<1, 1>>)

Catapult(band_system, arm, eficiencia) ==
    IF ~EficienciaOk(eficiencia)
    THEN Raise(ValueError, "eficiencia debe estar en (0,1].")
    ELSE Ok([bands |-> band_system,
             arm |-> arm,
             eficiencia |-> eficiencia,
             loaded_projectile |-> None,
             pull_distance |-> Zero])

(* Variant: loading also releases the pull.                                *)
load_reset(self, projectile) ==
    [kind |-> "ok", val |-> None,
     self |-> [self EXCEPT !.loaded_projectile = projectile,
                           !.pull_distance = Zero]]

load(self, projectile) ==
    [kind |-> "ok", val |-> None,
     self |-> [self EXCEPT !.loaded_projectile = projectile]]

(* Variant: a negative distance is clamped to 0 instead of rejected.       *)
set_pull_clamped(self, distance_m) ==
    [kind |-> "ok", val |-> None,
     self |-> [self EXCEPT !.pull_distance =
                   IF Lt(distance_m, Zero) THEN Zero ELSE distance_m]]

set_pull(self, distance_m) ==
    IF Lt(distance_m, Zero)
    THEN [kind |-> ValueError, val |-> "La distancia de traccion debe ser >= 0",
          self |-> self]
    ELSE [kind |-> "ok", val |-> None,
          self |-> [self EXCEPT !.pull_distance = distance_m]]

stored_energy(self) ==
    Ok(Mul(Mul(Mul(<<1, 2>>, K_total(self.bands)), self.pull_distance),
           self.pull_distance))

(* Variant: the factor 2 of v = sqrt(2 E / m) is dropped.                  *)
velocity_of_half(E_useful, m) ==
    IF Le(E_useful, Zero) THEN Ok([sqrt_of |-> Zero])
    ELSE IF m = Zero THEN Raise(ZeroDivisionError, "float division by zero")
    ELSE math_sqrt(Div(E_useful, m))

(* Lines 86-90, with E_useful and m already computed.                      *)
velocity_of(E_useful, m) ==
    IF Le(E_useful, Zero) THEN Ok([sqrt_of |-> Zero])
    ELSE IF m = Zero THEN Raise(ZeroDivisionError, "float division by zero")
    ELSE math_sqrt(Div(Mul(<<2, 1>>, E_useful), m))

(* Variant: no test for a missing projectile; None has no attribute mass.  *)
launch_velocity_unchecked(self) ==
    IF self.loaded_projectile = None
    THEN Raise("AttributeError", "'NoneType' object has no attribute 'mass'")
    ELSE velocity_of(Mul(self.eficiencia, stored_energy(self).val),
                     self.loaded_projectile.mass)

launch_velocity(self) ==
    IF self.loaded_projectile = None
    THEN Raise(RuntimeError, "No hay proyectil cargado.")
    ELSE velocity_of(Mul(self.eficiencia, stored_energy(self).val),
                     self.loaded_projectile.mass)

(* Lines 95-96, with v the outcome of launch_velocity(): an exception of   *)
(* launch_velocity() propagates.                                           *)
range_of(v, angle_deg) ==
    IF v.kind # "ok" THEN v
    ELSE Ok(Div(Mul(Square(v.val),
                    math_sin(Mul(<<2, 1>>, math_radians(angle_deg)))), G))

range_at_angle(self, angle_deg) == range_of(launch_velocity(self), angle_deg)

(* Lines 102-112, with v and R the outcomes of lines 100 and 101.          *)
report_of(self, angle_deg, v, R) ==
    IF v.kind # "ok" THEN v
    ELSE IF R.kind # "ok" THEN R
    ELSE Ok([proyectil |-> IF self.loaded_projectile # None
                           THEN self.loaded_projectile.name ELSE "None",
             masa_kg |-> IF self.loaded_projectile # None
                         THEN self.loaded_projectile.mass ELSE Zero,
             pull_m |-> self.pull_distance,
             K_total_N_per_m |-> K_total(self.bands),
             energia_almacenada_J |-> stored_energy(self).val,
             energia_util_J |-> Mul(self.eficiencia, stored_energy(self).val),
             velocidad_m_s |-> v.val,
             angulo_deg |-> angle_deg,
             alcance_m |-> R.val])

simulate_launch(self, angle_deg) ==
    report_of(self, angle_deg, launch_velocity(self),
              range_at_angle(self, angle_deg))

(* ----------------------------- Experiment ------------------------------ *)
Experiment(catapult) == [cat |-> catapult]

(* Variant: the Experiment works on the catapult as it was at the latest   *)
(* run instead of as it is now.                                            *)
ExperimentCat_stale(self) ==
    IF prior = None THEN cats[self.cat]
    ELSE [cats[self.cat] EXCEPT !.loaded_projectile = prior.loaded_projectile,
                                !.pull_distance = prior.pull_distance]

(* self.cat dereferenced at the time of the call.                          *)
ExperimentCat(self) == cats[self.cat]

(* The loop of lines 123-125: i iterations to go, res the outcome of this  *)
(* iteration's simulate_launch; an exception leaves the loop.              *)
RECURSIVE TrialLoop(_, _, _, _)
TrialStep(cat, angle_deg, i, results, res) ==
    IF res.kind # "ok" THEN res
    ELSE TrialLoop(cat, angle_deg, i - 1, Append(results, res.val.alcance_m))

TrialLoop(cat, angle_deg, i, results) ==
    IF i <= 0 THEN Ok(results)
    ELSE TrialStep(cat, angle_deg, i, results, simulate_launch(cat, angle_deg))

(* Variant: the ranges are summed but not divided by their number.         *)
summary_of_sum(angle_deg, n, results) ==
    IF results.kind # "ok" THEN results
    ELSE IF results.val = <<>>
    THEN Raise("StatisticsError", "mean requires at least one data point")
    ELSE Ok([n |-> n,
             angle_deg |-> angle_deg,
             distancias |-> results.val,
             media_m |-> Sum(results.val)])

(* statistics.mean([]) raises StatisticsError.                             *)
summary_of(angle_deg, n, results) ==
    IF results.kind # "ok" THEN results
    ELSE IF results.val = <<>>
    THEN Raise("StatisticsError", "mean requires at least one data point")
    ELSE Ok([n |-> n,
             angle_deg |-> angle_deg,
             distancias |-> results.val,
             media_m |-> mean(results.val)])

(* Variant: the trial count 0 passes the check.                            *)
run_trials_lax(self, angle_deg, n) ==
    IF n < 0 THEN Raise(ValueError, "n debe ser >= 1")
    ELSE summary_of(angle_deg, n, TrialLoop(ExperimentCat(self), angle_deg, n, <<>>))

run_trials(self, angle_deg, n) ==
    IF n < 1 THEN Raise(ValueError, "n debe ser >= 1")
    ELSE summary_of(angle_deg, n, TrialLoop(ExperimentCat(self), angle_deg, n, <<>>))

(* --------------------------- driver inputs ----------------------------- *)
Masses == {<<-1, 1>>, <<0, 1>>, <<1, 200>>, <<1, 100>>}
NameOf(mass_kg) == IF mass_kg = <<1, 200>> THEN "pompon 5g" ELSE "proyectil blando"
KBands == {<<0, 1>>, <<200, 1>>}
NBands == {0, 1, 4}
Lengths == {<<0, 1>>, <<9, 50>>}
Eficiencias == {<<0, 1>>, <<7, 20>>, <<1, 1>>, <<3, 2>>}
Pulls == {<<-1, 100>>, <<0, 1>>, <<3, 100>>, <<1, 20>>}
Angles == {<<45, 1>>, <<105, 1>>}
TrialCounts == -1 .. MaxTrials

CatIds == 1 .. Len(cats)

Ret(op, cat, args, res) ==
    [op |-> op, cat |-> cat, args |-> args, kind |-> res.kind, val |-> res.val]

(* The fields of a Catapult that load and set_pull can change.             *)
Mutable(cat) == [loaded_projectile |-> cat.loaded_projectile,
                 pull_distance |-> cat.pull_distance]

(* ------------------------------ actions -------------------------------- *)
Init ==
    /\ arms = <<CatapultArm(DefaultArmLength).val>>
    /\ cats = <<>>
    /\ defaulted = {}
    /\ exp = None
    /\ prior = None
    /\ ret = Ret("import", 0, <<>>, Ok(None))

(* Catapult(BandSystem(k, n), eficiencia = e) when ~explicit,              *)
(* Catapult(BandSystem(k, n), CatapultArm(len), e) when explicit.          *)
(* Arguments are evaluated left to right before __init__ runs; an object   *)
(* built for a call that then fails is unreachable and is not kept.        *)
NewCatapult(k, n, explicit, len, e) ==
    /\ LET b == BandSystem(k, n)
           a == CatapultArm(len)
           armId == IF explicit THEN Len(arms) + 1 ELSE DefaultArm
       IN  IF b.kind # "ok"
           THEN /\ ret' = Ret("BandSystem", 0, <<k, n>>, b)
                /\ UNCHANGED <<arms, cats, defaulted, exp, prior>>
           ELSE IF explicit /\ a.kind # "ok"
           THEN /\ ret' = Ret("CatapultArm", 0, <<len>>, a)
                /\ UNCHANGED <<arms, cats, defaulted, exp, prior>>
           ELSE LET c == Catapult(b.val, armId, e)
                IN  IF c.kind # "ok"
                    THEN /\ ret' = Ret("Catapult", 0, <<e>>, c)
                         /\ UNCHANGED <<arms, cats, defaulted, exp, prior>>
                    ELSE /\ arms' = IF explicit THEN Append(arms, a.val) ELSE arms
                         /\ cats' = Append(cats, c.val)
                         /\ defaulted' = IF explicit THEN defaulted
                                         ELSE defaulted \cup {Len(cats) + 1}
                         /\ ret' = Ret("Catapult", Len(cats) + 1, <<e>>, Ok(None))
                         /\ UNCHANGED <<exp, prior>>

(* cats[c].load(Projectile(m, name))                                       *)
Load(c, m) ==
    LET p == Projectile(m, NameOf(m))
    IN  IF p.kind # "ok"
        THEN /\ ret' = Ret("Projectile", 0, <<m>>, p)
             /\ UNCHANGED <<arms, cats, defaulted, exp, prior>>
        ELSE LET r == load(cats[c], p.val)
             IN  /\ cats' = [cats EXCEPT ![c] = r.self]
                 /\ ret' = Ret("load", c, <<p.val>>, r)
                 /\ UNCHANGED <<arms, defaulted, exp, prior>>

(* cats[c].load(None): load stores whatever it is given.                   *)
Unload(c) ==
    /\ cats' = [cats EXCEPT ![c] = load(cats[c], None).self]
    /\ ret' = Ret("load", c, <<None>>, load(cats[c], None))
    /\ UNCHANGED <<arms, defaulted, exp, prior>>

SetPull(c, d) ==
    LET r == set_pull(cats[c], d)
    IN  /\ cats' = [cats EXCEPT ![c] = r.self]
        /\ ret' = Ret("set_pull", c, <<d>>, r)
        /\ UNCHANGED <<arms, defaulted, exp, prior>>

StoredEnergy(c) ==
    /\ ret' = Ret("stored_energy", c, <<>>, stored_energy(cats[c]))
    /\ UNCHANGED <<arms, cats, defaulted, exp, prior>>

LaunchVelocity(c) ==
    /\ ret' = Ret("launch_velocity", c, <<>>, launch_velocity(cats[c]))
    /\ UNCHANGED <<arms, cats, defaulted, exp, prior>>

RangeAtAngle(c, a) ==
    /\ ret' = Ret("range_at_angle", c, <<a>>, range_at_angle(cats[c], a))
    /\ UNCHANGED <<arms, cats, defaulted, exp, prior>>

SimulateLaunch(c, a) ==
    /\ ret' = Ret("simulate_launch", c, <<a>>, simulate_launch(cats[c], a))
    /\ UNCHANGED <<arms, cats, defaulted, exp, prior>>

NewExperiment(c) ==
    /\ exp' = Experiment(c)
    /\ prior' = None
    /\ ret' = Ret("Experiment", c, <<>>, Ok(None))
    /\ UNCHANGED <<arms, cats, defaulted>>

(* exp.run_trials(a, n).  prior remembers what the catapult looked like at *)
(* the latest run that returned a summary; the record of the call keeps    *)
(* the value prior had when the call was made.                             *)
RunTrials(a, n) ==
    /\ exp # None
    /\ LET r == run_trials(exp, a, n)
           now == Mutable(cats[exp.cat])
       IN  /\ ret' = [Ret("run_trials", exp.cat, <<a, n>>, r) EXCEPT
                        !.args = <<a, n, prior>>]
           /\ prior' = IF r.kind = "ok" THEN now ELSE prior
    /\ UNCHANGED <<arms, cats, defaulted, exp>>

(* The reference driver (lines 142-162): one Catapult, one Experiment at a *)
(* time, and the calls of the API on them in any order.                    *)
Next ==
    \/ /\ cats = <<>>
       /\ \E k \in KBands, n \in NBands, explicit \in BOOLEAN,
             len \in Lengths, e \in Eficiencias :
               NewCatapult(k, n, explicit, len, e)
    \/ \E c \in CatIds, m \in Masses : Load(c, m)
    \/ \E c \in CatIds : Unload(c)
    \/ \E c \in CatIds, d \in Pulls : SetPull(c, d)
    \/ \E c \in CatIds : StoredEnergy(c)
    \/ \E c \in CatIds : LaunchVelocity(c)
    \/ \E c \in CatIds, a \in Angles : RangeAtAngle(c, a)
    \/ \E c \in CatIds, a \in Angles : SimulateLaunch(c, a)
    \/ \E c \in CatIds : NewExperiment(c)
    \/ \E a \in Angles, n \in TrialCounts : RunTrials(a, n)

Spec == Init /\ [][Next]_vars

(* Several catapults side by side: construction and set_pull.              *)
NextFleet ==
    \/ /\ Len(cats) < MaxFleet
       /\ \E k \in KBands, n \in NBands, explicit \in BOOLEAN,
             len \in Lengths, e \in Eficiencias :
               NewCatapult(k, n, explicit, len, e)
    \/ \E c \in CatIds, d \in Pulls : SetPull(c, d)

SpecFleet == Init /\ [][NextFleet]_vars

(* ------------------------------ claims --------------------------------- *)
LaunchQueries == {"launch_velocity", "range_at_angle", "simulate_launch"}
Queries == LaunchQueries \cup {"stored_energy", "run_trials"}

(* C1: any two Catapults constructed without an arm argument hold distinct *)
(* CatapultArm objects.                                                    *)
C1_FreshDefaultArm ==
    \A i \in defaulted : \A j \in defaulted : i # j => cats[i].arm # cats[j].arm

(* C2: launch_velocity, range_at_angle and simulate_launch fail with the   *)
(* "no projectile" RuntimeError (not a ValueError, no report returned)     *)
(* exactly when no projectile is loaded, and they leave the state alone.   *)
C2_StateErrorIffNoProjectile ==
    /\ [](ret.op \in LaunchQueries =>
            /\ (cats[ret.cat].loaded_projectile = None <=> ret.kind = RuntimeError)
            /\ (cats[ret.cat].loaded_projectile = None =>
                    ret.val = "No hay proyectil cargado.")
            /\ ret.kind # ValueError)
    /\ [][ret'.op \in LaunchQueries => UNCHANGED <<arms, cats, exp>>]_vars

C2_Witness ==
    /\ ret.op = "simulate_launch"
    /\ ret.kind = RuntimeError
    /\ cats[ret.cat].pull_distance # Zero

(* C3: set_pull(d) with d < 0 fails with ValueError and keeps the previous *)
(* pull_distance; with d >= 0 it succeeds and pull_distance becomes d; so  *)
(* pull_distance >= 0 in every state.                                      *)
C3_SetPullValidates ==
    /\ [](\A c \in CatIds : cats[c].pull_distance[1] >= 0)
    /\ [][ret'.op = "set_pull" =>
            IF ret'.args[1][1] < 0
            THEN /\ ret'.kind = ValueError
                 /\ cats'[ret'.cat].pull_distance = cats[ret'.cat].pull_distance
            ELSE /\ ret'.kind = "ok"
                 /\ cats'[ret'.cat].pull_distance = ret'.args[1]]_vars

C3_Witness ==
    /\ ret.op = "set_pull"
    /\ ret.kind = ValueError
    /\ cats[ret.cat].pull_distance # Zero

(* C4: Catapult(...) fails with ValueError exactly when eficiencia is not  *)
(* in (0, 1]; a new Catapult has no projectile and pull_distance 0; the    *)
(* eficiencia of every Catapult stays in (0, 1].                           *)
C4_EficienciaInterval ==
    /\ [](\A c \in CatIds :
            /\ cats[c].eficiencia[1] > 0
            /\ cats[c].eficiencia[1] <= cats[c].eficiencia[2])
    /\ [][ret'.op = "Catapult" =>
            /\ ret'.kind \in {"ok", ValueError}
            /\ ret'.kind = ValueError <=>
                   ~(ret'.args[1][1] > 0 /\ ret'.args[1][1] <= ret'.args[1][2])
            /\ ret'.kind = "ok" =>
                   /\ cats'[ret'.cat].eficiencia = ret'.args[1]
                   /\ cats'[ret'.cat].loaded_projectile = None
                   /\ cats'[ret'.cat].pull_distance = Zero]_vars

C4_Witness ==
    \E c \in CatIds :
        /\ cats[c].eficiencia = <<1, 1>>
        /\ cats[c].loaded_projectile # None
        /\ cats[c].pull_distance # Zero

(* C5: run_trials(angle, n) with n >= 1 and a projectile loaded returns n, *)
(* n ranges all equal to the range of one simulate_launch(angle) in that   *)
(* state, and a mean equal to that range.                                  *)
C5_TrialsIdentical ==
    (ret.op = "run_trials" /\ ret.args[2] >= 1
        /\ cats[ret.cat].loaded_projectile # None) =>
    /\ ret.kind = "ok"
    /\ ret.val.n = ret.args[2]
    /\ ret.val.angle_deg = ret.args[1]
    /\ Len(ret.val.distancias) = ret.args[2]
    /\ \A i \in 1 .. Len(ret.val.distancias) :
           ret.val.distancias[i] =
               simulate_launch(cats[ret.cat], ret.args[1]).val.alcance_m
    /\ ret.val.media_m = simulate_launch(cats[ret.cat], ret.args[1]).val.alcance_m

C5_Witness ==
    /\ ret.op = "run_trials"
    /\ ret.kind = "ok"
    /\ ret.args[2] >= 2
    /\ ret.val.media_m # Zero

(* C6: run_trials(angle, n) with n < 1 fails with the ValueError of the    *)
(* trial-count check, whether or not a projectile is loaded.               *)
C6_TrialCountChecked ==
    (ret.op = "run_trials" /\ ret.args[2] < 1) =>
        (ret.kind = ValueError /\ ret.val = "n debe ser >= 1")

C6_Witness ==
    /\ ret.op = "run_trials"
    /\ ret.args[2] < 1
    /\ ret.kind = ValueError
    /\ cats[ret.cat].loaded_projectile = None

(* C7: with a projectile loaded launch_velocity() succeeds with v >= 0;    *)
(* v = 0 when pull_distance = 0; when pull_distance > 0, v > 0 and         *)
(* v^2 * mass = 2 * eficiencia * stored_energy().                          *)
C7_LaunchVelocity ==
    (ret.op = "launch_velocity" /\ cats[ret.cat].loaded_projectile # None) =>
    /\ ret.kind = "ok"
    /\ ret.val.sqrt_of[1] >= 0
    /\ cats[ret.cat].pull_distance = Zero => ret.val.sqrt_of = Zero
    /\ cats[ret.cat].pull_distance[1] > 0 =>
           /\ ret.val.sqrt_of[1] > 0
           /\ Mul(ret.val.sqrt_of, cats[ret.cat].loaded_projectile.mass) =
                  Mul(<<2, 1>>, Mul(cats[ret.cat].eficiencia,
                                    stored_energy(cats[ret.cat]).val))

C7_Witness ==
    /\ ret.op = "launch_velocity"
    /\ ret.kind = "ok"
    /\ cats[ret.cat].pull_distance[1] > 0

(* C8: stored_energy() succeeds with or without a projectile and returns   *)
(* 0.5 * (k_band * n_bands) * pull_distance^2, which is 0 when             *)
(* pull_distance = 0.                                                      *)
C8_StoredEnergy ==
    ret.op = "stored_energy" =>
    /\ ret.kind = "ok"
    /\ ret.val = Mul(<<1, 2>>,
                     Mul(Mul(cats[ret.cat].bands.k_band,
                             <<cats[ret.cat].bands.n_bands, 1>>),
                         Mul(cats[ret.cat].pull_distance,
                             cats[ret.cat].pull_distance)))
    /\ cats[ret.cat].pull_distance = Zero => ret.val = Zero

C8_Witness ==
    /\ ret.op = "stored_energy"
    /\ cats[ret.cat].loaded_projectile = None
    /\ cats[ret.cat].bands.n_bands > 1
    /\ ret.val # Zero

(* C9: load changes only the loaded projectile, set_pull changes only      *)
(* pull_distance, and the queries and run_trials change nothing.           *)
C9_Frame ==
    [][/\ ret'.op = "load" =>
            /\ cats' = [cats EXCEPT ![ret'.cat].loaded_projectile = ret'.args[1]]
            /\ UNCHANGED <<arms, exp>>
       /\ ret'.op = "set_pull" =>
            /\ cats = [cats' EXCEPT ![ret'.cat].pull_distance =
                                        cats[ret'.cat].pull_distance]
            /\ UNCHANGED <<arms, exp>>
       /\ ret'.op \in Queries => UNCHANGED <<arms, cats, exp>>]_vars

C9_Witness ==
    /\ ret.op = "load"
    /\ cats[ret.cat].pull_distance # Zero
    /\ exp # None

(* C10: a run_trials made after the catapult was changed since the         *)
(* previous run returns what simulate_launch gives on the catapult as it   *)
(* is now: its range n times, or its exception.                            *)
ChangedSinceLastRun ==
    /\ ret.op = "run_trials"
    /\ ret.args[2] >= 1
    /\ ret.args[3] # None
    /\ ret.args[3] # Mutable(cats[ret.cat])

C10_ExperimentByReference ==
    ChangedSinceLastRun =>
        IF simulate_launch(cats[ret.cat], ret.args[1]).kind = "ok"
        THEN /\ ret.kind = "ok"
             /\ ret.val.distancias =
                    [i \in 1 .. ret.args[2] |->
                        simulate_launch(cats[ret.cat], ret.args[1]).val.alcance_m]
        ELSE /\ ret.kind = simulate_launch(cats[ret.cat], ret.args[1]).kind
             /\ ret.val = simulate_launch(cats[ret.cat], ret.args[1]).val

C10_Witness ==
    /\ ChangedSinceLastRun
    /\ ret.kind = "ok"
    /\ ret.val.distancias[1] #
           simulate_launch(
               [cats[ret.cat] EXCEPT
                   !.loaded_projectile = ret.args[3].loaded_projectile,
                   !.pull_distance = ret.args[3].pull_distance],
               ret.args[1]).val.alcance_m
====
